---- MODULE Spec2Model ----
(***************************************************************************)
(* A model of grepr (src/lib.rs, src/main.rs): the path resolver            *)
(* find_files, the line filter find_lines, and the orchestration of run     *)
(* and main.                                                                *)
(*                                                                          *)
(* Text is a sequence of one-character strings; "LF" stands for the byte    *)
(* 0x0A, "CR" for 0x0D and "BAD" for a byte that is not valid UTF-8.        *)
(* Everything written to a channel is a sequence of string pieces.          *)
(***************************************************************************)
EXTENDS Integers, Sequences, FiniteSets, TLC

VARIABLES
    pc,          \* position of main: "get_cli", "find_files", "loop", "exit"
    cli,         \* the Cli value (lib.rs:13-26)
    filenames,   \* run's `filenames` (lib.rs:107)
    file_count,  \* run's `file_count` (lib.rs:108)
    k,           \* index of the entry the for loop of run is at (lib.rs:110)
    log,         \* everything written so far to stdout and stderr, in order
    exit_code,   \* the process's exit status, -1 while it runs
    file,        \* find_lines called on its own: the stream's content
    pattern,     \* find_lines called on its own: the compiled pattern
    matches      \* find_lines called on its own: the result per invert flag

vars == <<pc, cli, filenames, file_count, k, log, exit_code, file, pattern, matches>>

(***************************************************************************)
(* Bounds of the model.                                                     *)
(***************************************************************************)
MaxPaths == 2      \* longest list of FILE arguments
MaxStream == 4     \* longest stream find_lines is called on by itself

(***************************************************************************)
(* Sequence helpers.                                                        *)
(***************************************************************************)
Range(s) == {s[i] : i \in 1..Len(s)}

SeqsUpTo(S, n) == UNION {[1..m -> S] : m \in 0..n}

RECURSIVE Flatten(_)
Flatten(ss) == IF ss = <<>> THEN <<>> ELSE Head(ss) \o Flatten(Tail(ss))

XOR(a, b) == (a /\ ~b) \/ (~a /\ b)

(***************************************************************************)
(* The regex crate, restricted to literal patterns: a compiled Regex is a   *)
(* literal and the case_insensitive option; "(" alone does not compile.     *)
(***************************************************************************)
to_lower(c) ==
    CASE c = "L" -> "l" [] c = "I" -> "i" [] c = "D" -> "d"
      [] c = "O" -> "o" [] c = "R" -> "r" [] OTHER -> c

regex_valid(src) == "(" \notin Range(src)

RegexBuilder(src, insensitive) == [lit |-> src, ci |-> insensitive]

is_match(re, line) ==
    \E i \in 1..(Len(line) - Len(re.lit) + 1) :
        \A j \in 1..Len(re.lit) :
            IF re.ci THEN to_lower(line[i + j - 1]) = to_lower(re.lit[j])
                     ELSE line[i + j - 1] = re.lit[j]

(***************************************************************************)
(* The filesystem the program runs against.  kind is what fs::metadata and  *)
(* walkdir report; "denied" is an entry whose traversal yields an error.    *)
(* A path that is not in the domain does not exist.                         *)
(***************************************************************************)
Node(kind, children, content, openable) ==
    [kind |-> kind, children |-> children, content |-> content, openable |-> openable]

FoxText == <<"L","o","r","e","m","LF","I","p","s","u","m","CR","LF","D","O","L","O","R">>

FS ==
    [p \in {"f", "bin", "nop", "dev", "d", "d/a", "d/l", "d/e", "d/s", "d/s/b"} |->
        CASE p = "f"     -> Node("file", <<>>, FoxText, TRUE)
          [] p = "bin"   -> Node("file", <<>>, <<"o","r","LF","BAD","LF">>, TRUE)
          [] p = "nop"   -> Node("file", <<>>, <<"o","r","LF">>, FALSE)
          [] p = "dev"   -> Node("other", <<>>, <<>>, TRUE)
          [] p = "d"     -> Node("dir", <<"d/a", "d/l", "d/e", "d/s">>, <<>>, TRUE)
          [] p = "d/a"   -> Node("file", <<>>, <<"o","r","LF","x","LF">>, TRUE)
          [] p = "d/l"   -> Node("symlink", <<>>, <<>>, TRUE)
          [] p = "d/e"   -> Node("denied", <<>>, <<>>, FALSE)
          [] p = "d/s"   -> Node("dir", <<"d/s/b">>, <<>>, TRUE)
          [] p = "d/s/b" -> Node("file", <<>>, <<"x","LF","O","R">>, TRUE)]

Stdin == <<"O","R","LF","o","r","LF">>

\* The FILE arguments the model passes; "missing" is not in the filesystem.
PathArgs == {"-", "f", "bin", "nop", "dev", "d", "missing"}

ENOENT == "No such file or directory (os error 2)"
EACCES == "Permission denied (os error 13)"
EUTF8 == "stream did not contain valid UTF-8"
EREGEX == "regex parse error"

\* fs::metadata(path)
metadata(path) ==
    IF path \in DOMAIN FS
    THEN [ok |-> TRUE, kind |-> FS[path].kind, err |-> ""]
    ELSE [ok |-> FALSE, kind |-> "", err |-> ENOENT]

\* WalkDir::new(path).into_iter(): the entry itself, then, for a directory,
\* the entries beneath each child in directory order.  Symbolic links are
\* not followed.
RECURSIVE WalkDir(_)
WalkDir(path) ==
    LET n == FS[path] IN
    IF n.kind = "denied"
    THEN <<[ok |-> FALSE, path |-> path, file_type |-> ""]>>
    ELSE <<[ok |-> TRUE, path |-> path, file_type |-> n.kind]>>
         \o (IF n.kind = "dir"
             THEN Flatten([i \in 1..Len(n.children) |-> WalkDir(n.children[i])])
             ELSE <<>>)

(***************************************************************************)
(* find_files (lib.rs:37-72).  An entry of the result is Ok(path) or        *)
(* Err(message); src is the index of the input path that produced it, kept  *)
(* only to state the claims.                                                *)
(***************************************************************************)
OkEntry(path, i) == [ok |-> TRUE, path |-> path, err |-> <<>>, src |-> i]
ErrEntry(msg, i) == [ok |-> FALSE, path |-> "", err |-> msg, src |-> i]

\* lib.rs:55-61
walk_files(path, i) ==
    LET es == SelectSeq(WalkDir(path), LAMBDA e : e.ok /\ e.file_type = "file")
    IN  [j \in 1..Len(es) |-> OkEntry(es[j].path, i)]

\* What a metadata error does to the loop over paths (lib.rs:65).
metadata_err_breaks == TRUE

\* One iteration of the loop over paths (lib.rs:41-67): the entries pushed
\* and whether the loop is left.
find_files_path(path, i, recursive) ==
    IF path = "-" THEN [pushed |-> <<OkEntry(path, i)>>, brk |-> FALSE]
    ELSE LET m == metadata(path) IN
         IF ~m.ok
         THEN [pushed |-> <<ErrEntry(<<path, ": ", m.err>>, i)>>,
               brk |-> metadata_err_breaks]
         ELSE IF m.kind = "file"
         THEN [pushed |-> <<OkEntry(path, i)>>, brk |-> FALSE]
         ELSE IF ~recursive /\ m.kind = "dir"
         THEN [pushed |-> <<ErrEntry(<<path, " is a directory">>, i)>>, brk |-> FALSE]
         ELSE [pushed |-> walk_files(path, i), brk |-> FALSE]

RECURSIVE find_files_from(_, _, _, _)
find_files_from(paths, i, recursive, results) ==
    IF i > Len(paths) THEN results
    ELSE LET r == find_files_path(paths[i], i, recursive) IN
         IF r.brk THEN results \o r.pushed
         ELSE find_files_from(paths, i + 1, recursive, results \o r.pushed)

find_files(paths, recursive) == find_files_from(paths, 1, recursive, <<>>)

(***************************************************************************)
(* open (lib.rs:74-79).                                                     *)
(***************************************************************************)
open(filename) ==
    IF filename = "-" THEN [ok |-> TRUE, stream |-> Stdin, err |-> ""]
    ELSE IF filename \in DOMAIN FS /\ FS[filename].openable
    THEN [ok |-> TRUE, stream |-> FS[filename].content, err |-> ""]
    ELSE [ok |-> FALSE, stream |-> <<>>, err |-> EACCES]

(***************************************************************************)
(* find_lines (lib.rs:81-104).                                              *)
(***************************************************************************)
\* The index of the first "LF" of s, or Len(s) when there is none.
RECURSIVE line_end(_, _)
line_end(s, i) ==
    IF i >= Len(s) THEN Len(s)
    ELSE IF s[i] = "LF" THEN i ELSE line_end(s, i + 1)

\* BufRead::read_line(&mut line): appends the bytes up to and including the
\* next newline to line and returns how many; an error when they are not
\* valid UTF-8, and 0 at the end of the stream.
read_line(stream, line) ==
    LET n == IF stream = <<>> THEN 0 ELSE line_end(stream, 1)
        got == SubSeq(stream, 1, n)
    IN  IF "BAD" \in Range(got)
        THEN [ok |-> FALSE, bytes |-> 0, line |-> line, rest |-> SubSeq(stream, n + 1, Len(stream))]
        ELSE [ok |-> TRUE, bytes |-> n, line |-> line \o got,
              rest |-> SubSeq(stream, n + 1, Len(stream))]

\* A fault: the buffer is not cleared after a line that is not kept.
line_kept(line) == line

\* line.clear() (lib.rs:100)
line_clear(line) == <<>>

\* mem::take(&mut line) (lib.rs:97): the value moved out; line is left empty.
mem_take(line) == line

\* A fault: the invert flag is ignored.
selected_ignoring_invert(re, invert_match, line) == is_match(re, line)

\* lib.rs:96
selected(re, invert_match, line) == XOR(invert_match, is_match(re, line))

RECURSIVE find_lines_loop(_, _, _, _, _)
find_lines_loop(stream, re, invert_match, line, result) ==
    LET r == read_line(stream, line) IN
    IF ~r.ok THEN [ok |-> FALSE, lines |-> <<>>, err |-> EUTF8]
    ELSE IF r.bytes = 0 THEN [ok |-> TRUE, lines |-> result, err |-> ""]
    ELSE IF selected(re, invert_match, r.line)
         THEN find_lines_loop(r.rest, re, invert_match, line_clear(<<>>),
                              Append(result, mem_take(r.line)))
         ELSE find_lines_loop(r.rest, re, invert_match, line_clear(r.line), result)

find_lines(stream, re, invert_match) ==
    find_lines_loop(stream, re, invert_match, <<>>, <<>>)

(***************************************************************************)
(* Output.                                                                  *)
(***************************************************************************)
Written(fd, entry, text) == [fd |-> fd, entry |-> entry, text |-> text]

\* println!("{}:{}", filename, lines.len()) and println!("{}", lines.len())
print_count(prefixed, filename, lines, entry) ==
    <<Written("stdout", entry,
              (IF prefixed THEN <<filename, ":">> ELSE <<>>) \o <<ToString(Len(lines)), "LF">>)>>

\* A fault: the lines of a target are written last to first.
print_lines_reversed(prefixed, filename, lines, entry) ==
    [j \in 1..Len(lines) |->
        Written("stdout", entry,
                (IF prefixed THEN <<filename, ":">> ELSE <<>>) \o lines[Len(lines) + 1 - j])]

\* print!("{}:{}", filename, line) and print!("{}", line), for line in lines
print_lines(prefixed, filename, lines, entry) ==
    [j \in 1..Len(lines) |->
        Written("stdout", entry,
                (IF prefixed THEN <<filename, ":">> ELSE <<>>) \o lines[j])]

\* A fault: a single target is prefixed too.
prefixed_always(count) == count > 0

\* lib.rs:119: whether the output of a target is prefixed with its name.
prefixed_output(count) == count > 1

(***************************************************************************)
(* The program: main calls get_cli, then run.                               *)
(***************************************************************************)
Patterns == {<<"o", "r">>, <<"(">>}

ClisInit ==
    [pattern : Patterns,
     files : SeqsUpTo(PathArgs, MaxPaths) \ {<<>>},
     recursive : BOOLEAN, count : BOOLEAN,
     invert_match : BOOLEAN, insensitive : BOOLEAN]

NoRegex == RegexBuilder(<<>>, FALSE)

Init ==
    /\ pc = "get_cli"
    /\ cli \in ClisInit
    /\ filenames = <<>>
    /\ file_count = 0
    /\ k = 0
    /\ log = <<>>
    /\ exit_code = -1
    /\ file = <<>>
    /\ pattern = NoRegex
    /\ matches = <<>>

LinesIdle == UNCHANGED <<file, pattern, matches>>

\* get_cli (lib.rs:28-35) returns Ok(cli) with the pattern compiled.
GetCliOk ==
    /\ pc = "get_cli"
    /\ regex_valid(cli.pattern)
    /\ pc' = "find_files"
    /\ UNCHANGED <<cli, filenames, file_count, k, log, exit_code>>
    /\ LinesIdle

\* get_cli fails at build()? (lib.rs:32); main reports it and exits with 1
\* (main.rs:2-4).
GetCliErr ==
    /\ pc = "get_cli"
    /\ ~regex_valid(cli.pattern)
    /\ log' = Append(log, Written("stderr", 0, <<EREGEX, "LF">>))
    /\ exit_code' = 1
    /\ pc' = "exit"
    /\ UNCHANGED <<cli, filenames, file_count, k>>
    /\ LinesIdle

\* run: lib.rs:107-108
RunFindFiles ==
    /\ pc = "find_files"
    /\ filenames' = find_files(cli.files, cli.recursive)
    /\ file_count' = Len(filenames')
    /\ k' = 1
    /\ pc' = "loop"
    /\ UNCHANGED <<cli, log, exit_code>>
    /\ LinesIdle

Regex == RegexBuilder(cli.pattern, cli.insensitive)

\* lib.rs:112
RunErrEntry ==
    /\ pc = "loop" /\ k <= Len(filenames)
    /\ ~filenames[k].ok
    /\ log' = Append(log, Written("stderr", k, filenames[k].err \o <<"LF">>))
    /\ k' = k + 1
    /\ UNCHANGED <<pc, cli, filenames, file_count, exit_code>>
    /\ LinesIdle

\* lib.rs:115
RunOpenErr ==
    /\ pc = "loop" /\ k <= Len(filenames)
    /\ filenames[k].ok
    /\ LET f == open(filenames[k].path) IN
        /\ ~f.ok
        /\ log' = Append(log, Written("stderr", k, <<filenames[k].path, ": ", f.err, "LF">>))
    /\ k' = k + 1
    /\ UNCHANGED <<pc, cli, filenames, file_count, exit_code>>
    /\ LinesIdle

\* lib.rs:117: find_lines fails and `?` returns the error from run; main
\* reports it and exits with 1 (main.rs:2-4).
RunReadErr ==
    /\ pc = "loop" /\ k <= Len(filenames)
    /\ filenames[k].ok
    /\ LET f == open(filenames[k].path) IN
        /\ f.ok
        /\ ~find_lines(f.stream, Regex, cli.invert_match).ok
        /\ log' = Append(log, Written("stderr", k, <<EUTF8, "LF">>))
    /\ exit_code' = 1
    /\ pc' = "exit"
    /\ UNCHANGED <<cli, filenames, file_count, k>>
    /\ LinesIdle

\* lib.rs:117-135
RunPrint ==
    /\ pc = "loop" /\ k <= Len(filenames)
    /\ filenames[k].ok
    /\ LET f == open(filenames[k].path)
           lines == find_lines(f.stream, Regex, cli.invert_match)
       IN
        /\ f.ok
        /\ lines.ok
        /\ log' = log \o
             (IF cli.count
              THEN print_count(prefixed_output(file_count), filenames[k].path, lines.lines, k)
              ELSE print_lines(prefixed_output(file_count), filenames[k].path, lines.lines, k))
    /\ k' = k + 1
    /\ UNCHANGED <<pc, cli, filenames, file_count, exit_code>>
    /\ LinesIdle

\* lib.rs:142: run returns Ok(()) and main returns.
RunDone ==
    /\ pc = "loop" /\ k > Len(filenames)
    /\ exit_code' = 0
    /\ pc' = "exit"
    /\ UNCHANGED <<cli, filenames, file_count, k, log>>
    /\ LinesIdle

Next ==
    \/ GetCliOk
    \/ GetCliErr
    \/ RunFindFiles
    \/ RunErrEntry
    \/ RunOpenErr
    \/ RunReadErr
    \/ RunPrint
    \/ RunDone

Spec == Init /\ [][Next]_vars

(***************************************************************************)
(* find_lines called on its own, as the unit tests do (lib.rs:195-223):     *)
(* on any stream up to MaxStream bytes, once with each invert flag.         *)
(***************************************************************************)
Bytes == {"o", "r", "O", "CR", "LF", "BAD"}

LinePatterns == {<<"o", "r">>, <<"r">>}

NotCalled == [called |-> FALSE, ok |-> FALSE, lines |-> <<>>]

InitLines ==
    /\ pc = "test_find_lines"
    /\ cli = [pattern |-> <<>>, files |-> <<>>, recursive |-> FALSE,
              count |-> FALSE, invert_match |-> FALSE, insensitive |-> FALSE]
    /\ filenames = <<>>
    /\ file_count = 0
    /\ k = 0
    /\ log = <<>>
    /\ exit_code = -1
    /\ file \in SeqsUpTo(Bytes, MaxStream)
    /\ \E src \in LinePatterns, ci \in BOOLEAN : pattern = RegexBuilder(src, ci)
    /\ matches = [b \in BOOLEAN |-> NotCalled]

CallFindLines(invert_match) ==
    /\ pc = "test_find_lines"
    /\ ~matches[invert_match].called
    /\ LET r == find_lines(file, pattern, invert_match) IN
       matches' = [matches EXCEPT ![invert_match] =
                      [called |-> TRUE, ok |-> r.ok, lines |-> r.lines]]
    /\ UNCHANGED <<pc, cli, filenames, file_count, k, log, exit_code, file, pattern>>

NextLines == \E b \in BOOLEAN : CallFindLines(b)

SpecLines == InitLines /\ [][NextLines]_vars

(***************************************************************************)
(* Vocabulary of the properties.                                            *)
(***************************************************************************)
\* find_files has returned.
Resolved == pc = "loop" \/ (pc = "exit" /\ regex_valid(cli.pattern))

\* The process has ended after a pattern that compiled.
Exited == pc = "exit" /\ regex_valid(cli.pattern)

\* The entries of the result that input path i produced.
EntriesOf(i) == SelectSeq(filenames, LAMBDA e : e.src = i)

\* An entry without the index of the path that produced it.
Plain(es) == [j \in 1..Len(es) |-> [ok |-> es[j].ok, path |-> es[j].path, err |-> es[j].err]]

\* s without its i-th element.
Without(s, i) == SubSeq(s, 1, i - 1) \o SubSeq(s, i + 1, Len(s))

LookupFails(path) == path # "-" /\ ~metadata(path).ok

IsDir(path) == path # "-" /\ metadata(path).ok /\ metadata(path).kind = "dir"

\* The paths beneath a directory, from the directory relation alone.
RECURSIVE Beneath(_)
Beneath(path) ==
    UNION {{FS[path].children[i]} \cup Beneath(FS[path].children[i]) :
             i \in 1..Len(FS[path].children)}

RegularFilesUnder(path) == {p \in Beneath(path) : FS[p].kind = "file"}

\* The lines of a stream: each ends with its "LF", the last one possibly
\* without.
StreamLines(s) ==
    LET starts == {i \in 1..Len(s) : i = 1 \/ s[i - 1] = "LF"}
        nth(j) == CHOOSE a \in starts : Cardinality({b \in starts : b < a}) = j - 1
        endOf(a) == CHOOSE e \in a..Len(s) :
                        /\ s[e] = "LF" \/ e = Len(s)
                        /\ \A m \in a..(e - 1) : s[m] # "LF"
    IN  [j \in 1..Cardinality(starts) |-> SubSeq(s, nth(j), endOf(nth(j)))]

\* The elements of s at the positions in A, in order.
RECURSIVE AtPositions(_, _, _)
AtPositions(s, A, i) ==
    IF i > Len(s) THEN <<>>
    ELSE (IF i \in A THEN <<s[i]>> ELSE <<>>) \o AtPositions(s, A, i + 1)

\* What was written to a channel for entry j, in order.
TextsOf(fd, j) ==
    LET ws == SelectSeq(log, LAMBDA w : w.fd = fd /\ w.entry = j)
    IN  [n \in 1..Len(ws) |-> ws[n].text]

\* Entry j is a target that opens, and whose stream is read to its end.
Opens(j) == filenames[j].ok /\ open(filenames[j].path).ok

FilterOf(j) == find_lines(open(filenames[j].path).stream, Regex, cli.invert_match)

ReadsToEnd(j) == Opens(j) /\ FilterOf(j).ok

\* The lines of target j that the match predicate keeps.
KeptOf(j) ==
    SelectSeq(StreamLines(open(filenames[j].path).stream),
              LAMBDA l : XOR(cli.invert_match, is_match(Regex, l)))

PrefixOf(j) == IF Len(filenames) > 1 THEN <<filenames[j].path, ":">> ELSE <<>>

(***************************************************************************)
(* C1.  A path whose metadata lookup fails contributes exactly one failure  *)
(* entry, and the result without that entry is the result of resolving the  *)
(* path list without that path: later paths are resolved all the same.      *)
(***************************************************************************)
C1_LookupFailureIsLocal ==
    Resolved =>
        \A i \in 1..Len(cli.files) :
            LookupFails(cli.files[i]) =>
                /\ Len(EntriesOf(i)) = 1
                /\ ~EntriesOf(i)[1].ok
                /\ Plain(SelectSeq(filenames, LAMBDA e : e.src # i))
                     = Plain(find_files(Without(cli.files, i), cli.recursive))

(***************************************************************************)
(* C2.  The process exits non-zero only for a pattern that does not         *)
(* compile, and then nothing has been resolved or processed; after a        *)
(* pattern that compiles, whatever read errors occur, run has gone through  *)
(* every resolved entry and the exit code is 0.                             *)
(***************************************************************************)
C2_ReadErrorIsLocal ==
    pc = "exit" =>
        /\ exit_code # 0 <=> ~regex_valid(cli.pattern)
        /\ ~regex_valid(cli.pattern) => filenames = <<>> /\ k = 0
        /\ regex_valid(cli.pattern) => k > Len(filenames)

(***************************************************************************)
(* C3.  When the process has ended, every failure entry and every entry     *)
(* whose open fails has exactly one message on stderr (the failure message, *)
(* or "<path>: <error>") and nothing on stdout, and the exit code is 0.     *)
(***************************************************************************)
C3_FailedEntryReportedOnce ==
    Exited =>
        \A j \in 1..Len(filenames) :
            ~Opens(j) =>
                /\ TextsOf("stderr", j) =
                     <<(IF filenames[j].ok
                        THEN <<filenames[j].path, ": ", open(filenames[j].path).err>>
                        ELSE filenames[j].err) \o <<"LF">>>>
                /\ TextsOf("stdout", j) = <<>>
                /\ exit_code = 0

(***************************************************************************)
(* C4.  On a stream that can be read, find_lines with invert_match false    *)
(* and with invert_match true both succeed and partition the stream's       *)
(* lines by position: some set of positions gives the first result, its     *)
(* complement the second, and the lengths add up to the number of lines.    *)
(***************************************************************************)
C4_InvertPartitions ==
    (/\ pc = "test_find_lines"
     /\ matches[FALSE].called /\ matches[TRUE].called
     /\ "BAD" \notin Range(file)) =>
        LET all == StreamLines(file) IN
        /\ matches[FALSE].ok /\ matches[TRUE].ok
        /\ Len(matches[FALSE].lines) + Len(matches[TRUE].lines) = Len(all)
        /\ \E A \in SUBSET (1..Len(all)) :
              /\ AtPositions(all, A, 1) = matches[FALSE].lines
              /\ AtPositions(all, (1..Len(all)) \ A, 1) = matches[TRUE].lines

C4_Witness ==
    /\ pc = "test_find_lines"
    /\ matches[FALSE].called /\ matches[TRUE].called
    /\ "BAD" \notin Range(file)
    /\ Len(matches[FALSE].lines) >= 1
    /\ Len(matches[TRUE].lines) >= 1

(***************************************************************************)
(* C5.  What find_lines returns is the stream's lines for which invert XOR  *)
(* match holds, in stream order, each exactly as it stands in the stream    *)
(* with its terminator (or without, for an unterminated last line).         *)
(***************************************************************************)
C5_KeptLinesVerbatim ==
    pc = "test_find_lines" =>
        \A b \in BOOLEAN :
            (matches[b].called /\ matches[b].ok) =>
                matches[b].lines =
                    SelectSeq(StreamLines(file), LAMBDA l : XOR(b, is_match(pattern, l)))

\* A line that is not kept comes before the last line, which has no
\* terminator and is the only line kept.
C5_Witness ==
    /\ pc = "test_find_lines"
    /\ matches[FALSE].called /\ matches[FALSE].ok
    /\ Len(StreamLines(file)) >= 2
    /\ file[Len(file)] # "LF"
    /\ matches[FALSE].lines = <<StreamLines(file)[Len(StreamLines(file))]>>

(***************************************************************************)
(* C6.  As claimed: stdout is prefixed exactly when more than one entry was *)
(* resolved, and in count-only mode every target that opens has exactly one *)
(* count line, in the order of the targets.                                 *)
(***************************************************************************)
C6_CountLinePerOpenedTarget ==
    (Exited /\ cli.count) =>
        \A j \in 1..Len(filenames) :
            Opens(j) =>
                TextsOf("stdout", j) =
                    <<PrefixOf(j) \o <<ToString(Len(FilterOf(j).lines)), "LF">>>>

(***************************************************************************)
(* C6, amended.  For every entry run has gone through: a target that opens  *)
(* and whose stream is read to its end has, in count-only mode, exactly one *)
(* count line with the number of kept lines, and otherwise its kept lines;  *)
(* both prefixed with "<path>:" exactly when more than one entry was        *)
(* resolved.  No other entry has anything on stdout, and stdout follows the *)
(* order of the entries.                                                    *)
(***************************************************************************)
C6_CountLinePerReadTarget ==
    Resolved =>
        /\ \A j \in 1..Len(filenames) :
              TextsOf("stdout", j) =
                  IF j < k /\ ReadsToEnd(j)
                  THEN IF cli.count
                       THEN <<PrefixOf(j) \o <<ToString(Len(KeptOf(j))), "LF">>>>
                       ELSE [n \in 1..Len(KeptOf(j)) |-> PrefixOf(j) \o KeptOf(j)[n]]
                  ELSE <<>>
        /\ \A a, b \in 1..Len(log) :
              (a < b /\ log[a].fd = "stdout" /\ log[b].fd = "stdout")
                  => log[a].entry <= log[b].entry

C6_Witness ==
    /\ Exited /\ exit_code = 0 /\ cli.count
    /\ Len(filenames) = 2
    /\ ReadsToEnd(1) /\ ReadsToEnd(2)
    /\ Len(TextsOf("stdout", 1)) = 1 /\ Len(TextsOf("stdout", 2)) = 1
    /\ TextsOf("stdout", 1)[1][1] = filenames[1].path

(***************************************************************************)
(* C7.  Without --recursive, every input path that is a directory has       *)
(* exactly one entry in the result: the failure "<path> is a directory".    *)
(***************************************************************************)
C7_DirectoryIsOneFailure ==
    (Resolved /\ ~cli.recursive) =>
        \A i \in 1..Len(cli.files) :
            IsDir(cli.files[i]) =>
                Plain(EntriesOf(i)) =
                    Plain(<<ErrEntry(<<cli.files[i], " is a directory">>, i)>>)

(***************************************************************************)
(* C8.  With --recursive, the entries of an input path that is a directory  *)
(* are successes only, one for each regular file beneath it.                *)
(***************************************************************************)
C8_DirectoryIsItsRegularFiles ==
    (Resolved /\ cli.recursive) =>
        \A i \in 1..Len(cli.files) :
            IsDir(cli.files[i]) =>
                LET es == EntriesOf(i) IN
                /\ \A j \in 1..Len(es) : es[j].ok
                /\ {es[j].path : j \in 1..Len(es)} = RegularFilesUnder(cli.files[i])
                /\ Len(es) = Cardinality(RegularFilesUnder(cli.files[i]))

(***************************************************************************)
(* C9.  Every occurrence of "-" among the input paths has exactly one       *)
(* entry in the result, the success "-".                                    *)
(***************************************************************************)
C9_StdinAlwaysResolves ==
    Resolved =>
        \A i \in 1..Len(cli.files) :
            cli.files[i] = "-" => Plain(EntriesOf(i)) = Plain(<<OkEntry("-", i)>>)

(***************************************************************************)
(* C10.  Order is kept from the arguments to the output: the entries of     *)
(* find_files are in the order of the paths that produced them, a           *)
(* directory's files in the order of the traversal; everything written for  *)
(* an entry comes before anything written for a later entry, and only for   *)
(* entries the loop has reached; the lines written for a target are in the  *)
(* order of its stream.                                                     *)
(***************************************************************************)
C10_OrderPreserved ==
    Resolved =>
        /\ \A a, b \in 1..Len(filenames) :
              a < b => filenames[a].src <= filenames[b].src
        /\ \A i \in 1..Len(cli.files) :
              (IsDir(cli.files[i]) /\ cli.recursive) =>
                  LET walked == WalkDir(cli.files[i])
                      es == EntriesOf(i)
                  IN  \E A \in SUBSET (1..Len(walked)) :
                          AtPositions([n \in 1..Len(walked) |-> walked[n].path], A, 1)
                              = [n \in 1..Len(es) |-> es[n].path]
        /\ \A a, b \in 1..Len(log) : a < b => log[a].entry <= log[b].entry
        /\ \A a \in 1..Len(log) : log[a].entry <= k /\ log[a].entry <= Len(filenames)
        /\ ~cli.count =>
              \A j \in 1..Len(filenames) :
                  Opens(j) =>
                      LET all == StreamLines(open(filenames[j].path).stream)
                          out == TextsOf("stdout", j)
                      IN  \E A \in SUBSET (1..Len(all)) :
                              AtPositions(all, A, 1)
                                  = [n \in 1..Len(out) |->
                                        SubSeq(out[n], Len(PrefixOf(j)) + 1, Len(out[n]))]

\* Two targets have been written, the first with two lines, and a
\* directory contributed the second.
C10_Witness ==
    /\ Exited /\ exit_code = 0 /\ ~cli.count
    /\ Len(filenames) >= 2
    /\ Len(TextsOf("stdout", 1)) = 2
    /\ Len(TextsOf("stdout", 2)) >= 1
    /\ TextsOf("stdout", 1)[1] # TextsOf("stdout", 1)[2]
    /\ \E e \in Range(filenames) : e.src = 2 /\ IsDir(cli.files[2])

====
